---- MODULE Spec2Model ----
(***************************************************************************)
(* SectorPortfolioOptimizer (portfolio_optimizer.py): one optimizer object *)
(* and the calls a client can make on it.                                  *)
(*                                                                         *)
(* Numbers.  Weights are integers in units of 1/Unit (Unit stands for the  *)
(* weight 1.0); the equal-weight start vector is carried in units of       *)
(* 1/n_assets.  Returns are in halves (prices are 1 or 2, so a percentage  *)
(* change times 2 is an integer), a column mean is carried as the column   *)
(* sum (the mean times the row count) and the covariance matrix is carried *)
(* up to one positive factor.  Signs and zeros of every statistic are      *)
(* therefore exact; a float quotient is carried as numerator and squared   *)
(* denominator, or as inf / -inf / nan when the denominator is zero.       *)
(* Python positions 0..n-1 are positions 1..n here.                        *)
(***************************************************************************)
EXTENDS Integers, Sequences, FiniteSets, TLC

\* The assets and sector labels a client may construct the optimizer with.
AssetNames == <<"TCS.NS", "HDFCBANK.NS">>
SectorNames == {"Technology", "Banking"}

\* Longest price history (rows) a fetch delivers.
MaxRows == 3
\* Resolution of the weight grid: the integer that stands for weight 1.0.
Unit == 2

VARIABLES
    stocks,              \* self.stocks: list of asset symbols
    sectors,             \* self.sectors: list of sector labels
    stock_sectors,       \* self.stock_sectors: asset -> sector
    returns,             \* self.returns: None or a frame of daily returns
    cov_matrix,          \* self.cov_matrix: None or a frame indexed by asset
    sector_constraints,  \* self.sector_constraints: None or {'min':..,'max':..}
    constraints,         \* the constraint list of the latest optimize_portfolio
    outcome              \* what the latest call did: returned value or raised error

vars == <<stocks, sectors, stock_sectors, returns, cov_matrix,
          sector_constraints, constraints, outcome>>

-----------------------------------------------------------------------------
(* Arithmetic and sequence helpers (numpy / builtins). *)

Range(s) == {s[i] : i \in DOMAIN s}

Abs(a) == IF a < 0 THEN -a ELSE a

Min(a, b) == IF a <= b THEN a ELSE b

RECURSIVE GCD(_, _)
GCD(a, b) == IF b = 0 THEN a ELSE GCD(b, a % b)

\* np.sum of a one-dimensional array.
RECURSIVE np_sum(_)
np_sum(s) == IF s = <<>> THEN 0 ELSE Head(s) + np_sum(Tail(s))

\* x[idx]: numpy fancy indexing with a list of positions.
Take(x, idx) == [k \in 1..Len(idx) |-> x[idx[k]]]

\* The position of an element in a list without duplicates.
IndexOf(s, e) == CHOOSE i \in DOMAIN s : s[i] = e

-----------------------------------------------------------------------------
(* Frames: pandas DataFrames, and Python's None. *)

NoneFrame == [isNone |-> TRUE, columns |-> <<>>, rows |-> <<>>]

Frame(cols, rws) == [isNone |-> FALSE, columns |-> cols, rows |-> rws]

NoneConstraints == [isNone |-> TRUE, min |-> <<>>, max |-> <<>>]

-----------------------------------------------------------------------------
(* Floats, and what a call did. *)

\* No float at all (the quantity was never computed).
NoFloat == [kind |-> "none", num |-> 0, den2 |-> 0]

\* numpy's a / b for float64 a and b = sqrt(bsq) >= 0: a RuntimeWarning and
\* inf, -inf or nan when b is zero, never an exception.
FloatDiv(a, bsq) ==
    IF bsq = 0
    THEN [kind |-> IF a > 0 THEN "inf" ELSE IF a < 0 THEN "-inf" ELSE "nan",
          num |-> a, den2 |-> 0]
    ELSE [kind |-> "finite", num |-> a, den2 |-> bsq]

\* Unary minus on a float.
FloatNeg(f) ==
    [kind |-> IF f.kind = "inf" THEN "-inf" ELSE IF f.kind = "-inf" THEN "inf" ELSE f.kind,
     num |-> -f.num, den2 |-> f.den2]

NoResult ==
    [weights |-> <<>>, sector_weights |-> <<>>, portfolio_return |-> 0,
     portfolio_volatility |-> 0, sharpe_ratio |-> NoFloat]

NoSolver == [success |-> FALSE, message |-> "", x |-> <<>>]

\* The call returned normally (None for fetch_data and set_sector_constraints).
\* argument is the weight vector a helper was called with directly.
Returned(op) ==
    [op |-> op, argument |-> <<>>, raised |-> "None", message |-> "", solver_calls |-> 0,
     solver |-> NoSolver, objective_init |-> NoFloat, result |-> NoResult]

\* The call raised an exception of type err after calls invocations of the solver.
Raised(op, err, msg, calls) ==
    [op |-> op, argument |-> <<>>, raised |-> err, message |-> msg, solver_calls |-> calls,
     solver |-> NoSolver, objective_init |-> NoFloat, result |-> NoResult]

-----------------------------------------------------------------------------
(* fetch_data *)

\* The closing prices the data source holds for an asset over the requested
\* dates: 1, except 2 on every (k+1)-th date for the asset at position k of
\* AssetNames (1,2,1,2,.. for the first asset, 1,1,2,1,1,2,.. for the second).
Close(stock, T) ==
    [t \in 1..T |-> IF t % (IndexOf(AssetNames, stock) + 1) = 0 THEN 2 ELSE 1]

\* What the retrieval loop may meet: ticker.history(...)['Close'] returns the
\* asset's series, or raises for the first asset of self.stocks (an asset the
\* data source does not know).
Retrieved(stock, T) == [raises |-> FALSE, close |-> Close(stock, T)]

RetrievalFailed == [raises |-> TRUE, close |-> <<>>]

Histories(T) ==
    {[a \in Range(stocks) |-> IF a \in failing THEN RetrievalFailed ELSE Retrieved(a, T)] :
        failing \in {{}} \cup {{stocks[i]} : i \in DOMAIN stocks \cap {1}}}

\* data after the retrieval loop: a column per asset whose retrieval did not
\* raise, in the order of self.stocks; all series share the same dates.
FetchedColumns(hist) == SelectSeq(stocks, LAMBDA s : ~hist[s].raises)

FetchedData(hist, T) ==
    LET cols == FetchedColumns(hist)
    IN  IF cols = <<>>
        THEN Frame(<<>>, <<>>)
        ELSE Frame(cols, [t \in 1..T |-> [j \in 1..Len(cols) |-> hist[cols[j]].close[t]]])

\* One cell of DataFrame.pct_change(), in halves.
PctChange(prev, cur) == (2 * (cur - prev)) \div prev

\* data.pct_change().dropna(): the first row of pct_change is all NaN and is
\* dropped; every later row is complete.
pct_change_dropna(data) ==
    LET T == Len(data.rows)
    IN  Frame(data.columns,
              IF T = 0 THEN <<>>
              ELSE [t \in 1..(T - 1) |->
                       [j \in 1..Len(data.columns) |->
                           PctChange(data.rows[t][j], data.rows[t + 1][j])]])

\* Column sums of a table: returns.mean() times the row count.
ColumnSums(frame) ==
    [j \in 1..Len(frame.columns) |-> np_sum([t \in 1..Len(frame.rows) |-> frame.rows[t][j]])]

\* A vector or a table with every entry computed once (numpy arrays are values,
\* not expressions).
Vec(f) == SubSeq(f, 1, Len(f))

Mat(f) == Vec([i \in 1..Len(f) |-> Vec(f[i])])

\* The greatest common divisor of the absolute values of a table's entries.
RECURSIVE VecGCD(_)
VecGCD(v) == IF v = <<>> THEN 0 ELSE GCD(Abs(Head(v)), VecGCD(Tail(v)))

RECURSIVE MatGCD(_)
MatGCD(m) == IF m = <<>> THEN 0 ELSE GCD(VecGCD(Head(m)), MatGCD(Tail(m)))

\* sklearn's LedoitWolf().fit(X).covariance_ for an n x p table X, up to one
\* positive factor.  Y is the centred table times n, A the empirical
\* covariance times n^3, and bm/dn the shrinkage coefficient
\* min(beta, delta)/delta; the result is (1 - s) * S + s * mu * I.
LedoitWolfCovariance(X, p) ==
    LET n    == Len(X)
        cs   == Vec([j \in 1..p |-> np_sum([t \in 1..n |-> X[t][j]])])
        Y    == Mat([t \in 1..n |-> [j \in 1..p |-> n * X[t][j] - cs[j]]])
        A    == Mat([i \in 1..p |-> [j \in 1..p |->
                    np_sum([t \in 1..n |-> Y[t][i] * Y[t][j]])]])
        trA  == np_sum([i \in 1..p |-> A[i][i]])
        D    == np_sum([i \in 1..p |-> np_sum([j \in 1..p |-> A[i][j] * A[i][j]])])
        rsq  == Vec([t \in 1..n |-> np_sum([i \in 1..p |-> Y[t][i] * Y[t][i]])])
        B    == np_sum([t \in 1..n |-> rsq[t] * rsq[t]])
        bn   == p * (n * B - D)
        dn   == n * (p * D - trA * trA)
        bm   == IF p = 1 THEN 0 ELSE Min(bn, dn)
        M    == IF bm = 0 THEN A
                ELSE Mat([i \in 1..p |-> [j \in 1..p |->
                        (dn - bm) * p * A[i][j] + (IF i = j THEN bm * trA ELSE 0)]])
        g    == MatGCD(M)
    IN  IF g = 0 THEN M ELSE Mat([i \in 1..p |-> [j \in 1..p |-> M[i][j] \div g]])

\* fetch_data(start_date, end_date), with the histories the data source
\* delivers as input.  self.returns is assigned before the estimator runs, so
\* it is replaced even when the estimator raises; self.cov_matrix only when
\* it does not.
fetch_data(hist, T) ==
    /\ returns' = pct_change_dropna(FetchedData(hist, T))
    /\ IF Len(returns'.rows) = 0 \/ Len(returns'.columns) = 0
       THEN /\ cov_matrix' = cov_matrix
            /\ outcome' = Raised("fetch_data", "ValueError", "LedoitWolf.fit: empty input", 0)
       ELSE /\ cov_matrix' = Frame(returns'.columns,
                                  LedoitWolfCovariance(returns'.rows, Len(returns'.columns)))
            /\ outcome' = Returned("fetch_data")
    /\ UNCHANGED <<stocks, sectors, stock_sectors, sector_constraints, constraints>>

FetchData ==
    \E T \in 0..MaxRows : \E hist \in Histories(T) :
        fetch_data(hist, T)

-----------------------------------------------------------------------------
(* set_sector_constraints *)

set_sector_constraints(min_weights, max_weights) ==
    /\ sector_constraints' = [isNone |-> FALSE, min |-> min_weights, max |-> max_weights]
    /\ outcome' = Returned("set_sector_constraints")
    /\ UNCHANGED <<stocks, sectors, stock_sectors, returns, cov_matrix, constraints>>

\* The (min, max) pairs a client may configure for a sector, in weight units:
\* the whole range, an exact full allocation, min above max, and both ends
\* outside [0, 1].
BoundPairs == {<<0, Unit>>, <<Unit, Unit>>, <<Unit, 0>>, <<-1, Unit + 1>>}

SetSectorConstraints ==
    \E D \in SUBSET SectorNames : \E b \in [D -> BoundPairs] :
        set_sector_constraints([s \in D |-> b[s][1]], [s \in D |-> b[s][2]])

-----------------------------------------------------------------------------
(* _get_portfolio_stats, _objective_function, _get_sector_weights *)

\* Trading days per year: the annualisation factor of both statistics.
TradingDays == 252

\* self.returns.mean() * weights, then np.sum(...) * 252.  numpy broadcasts the
\* k column means against the n weights; pandas then needs k results for its k
\* labels.  np.sum of a Series skips NaN, so no rows gives 0.
ReturnRaises(weights) ==
    IF returns.isNone THEN "AttributeError"
    ELSE IF Len(returns.columns) # Len(weights) /\ Len(weights) # 1 THEN "ValueError"
    ELSE "None"

PortfolioReturn(weights) ==
    LET sums == ColumnSums(returns)
        k    == Len(returns.columns)
    IN  np_sum([j \in 1..k |-> sums[j] * (IF Len(weights) = 1 THEN weights[1] ELSE weights[j])])
            * TradingDays

\* np.dot(weights.T, np.dot(self.cov_matrix * 252, weights)): the squared volatility.
VarianceRaises(weights) ==
    IF cov_matrix.isNone THEN "TypeError"
    ELSE IF Len(cov_matrix.columns) # Len(weights) THEN "ValueError"
    ELSE "None"

PortfolioVariance(weights) ==
    LET n == Len(weights)
    IN  np_sum([i \in 1..n |->
            weights[i] * np_sum([j \in 1..n |-> cov_matrix.rows[i][j] * TradingDays * weights[j]])])

\* _get_portfolio_stats(weights): the return is computed first, then the
\* volatility (carried squared).
_get_portfolio_stats(weights) ==
    IF ReturnRaises(weights) # "None"
    THEN [raised |-> ReturnRaises(weights), portfolio_return |-> 0, portfolio_vol |-> 0]
    ELSE IF VarianceRaises(weights) # "None"
    THEN [raised |-> VarianceRaises(weights), portfolio_return |-> 0, portfolio_vol |-> 0]
    ELSE [raised |-> "None", portfolio_return |-> PortfolioReturn(weights),
          portfolio_vol |-> PortfolioVariance(weights)]

\* The ratio as both _objective_function and optimize_portfolio compute it.
SharpeRatio(stats) == FloatDiv(stats.portfolio_return, stats.portfolio_vol)

\* _objective_function(weights), for weights on which the statistics are defined.
_objective_function(weights) == FloatNeg(SharpeRatio(_get_portfolio_stats(weights)))

\* The loop with `=` where the code has `+=`: each asset overwrites its
\* sector's entry.
RECURSIVE SectorWeightsLoopAssign(_, _, _)
SectorWeightsLoopAssign(i, weights, sector_weights) ==
    IF i > Min(Len(stocks), Len(weights))
    THEN [raised |-> "None", key |-> "", value |-> sector_weights]
    ELSE LET sector == stock_sectors[stocks[i]]
         IN  IF sector \notin DOMAIN sector_weights
             THEN [raised |-> "KeyError", key |-> sector, value |-> sector_weights]
             ELSE SectorWeightsLoopAssign(i + 1, weights,
                      [sector_weights EXCEPT ![sector] = weights[i]])

\* _get_sector_weights(weights): a zero per sector of self.sectors, then each
\* asset's weight added under its sector's key; a key that is not there is a
\* KeyError.
RECURSIVE SectorWeightsLoop(_, _, _)
SectorWeightsLoop(i, weights, sector_weights) ==
    IF i > Min(Len(stocks), Len(weights))
    THEN [raised |-> "None", key |-> "", value |-> sector_weights]
    ELSE LET sector == stock_sectors[stocks[i]]
         IN  IF sector \notin DOMAIN sector_weights
             THEN [raised |-> "KeyError", key |-> sector, value |-> sector_weights]
             ELSE SectorWeightsLoop(i + 1, weights,
                      [sector_weights EXCEPT ![sector] = @ + weights[i]])

_get_sector_weights(weights) ==
    SectorWeightsLoop(1, weights, [sector \in Range(sectors) |-> 0])

-----------------------------------------------------------------------------
(* optimize_portfolio *)

\* [i for i, stock in enumerate(self.stocks) if self.stock_sectors[stock] == sector]
sector_stocks_idx(sector) ==
    SelectSeq([i \in 1..Len(stocks) |-> i], LAMBDA i : stock_sectors[stocks[i]] = sector)

\* The equality constraint: lambda x: np.sum(x) - 1.
SumToOne == [type |-> "eq", bound |-> "sum", idx |-> <<>>, made_for |-> ""]

\* The two dictionaries appended for one sector.  idx is the lambda's default
\* argument, evaluated when the lambda is created; made_for records the loop
\* iteration that created it.
SectorConstraintPair(sector) ==
    << [type |-> "ineq", bound |-> "min", idx |-> sector_stocks_idx(sector), made_for |-> sector],
       [type |-> "ineq", bound |-> "max", idx |-> sector_stocks_idx(sector), made_for |-> sector] >>

RECURSIVE SectorLoop(_)
SectorLoop(k) ==
    IF k > Len(sectors) THEN <<>>
    ELSE SectorConstraintPair(sectors[k]) \o SectorLoop(k + 1)

\* The constraint list as it stands when minimize is called.  A dictionary
\* {'min':.., 'max':..} is truthy whatever it holds.
BuildConstraints ==
    <<SumToOne>> \o (IF sector_constraints.isNone THEN <<>> ELSE SectorLoop(1))

\* The local variable `sector` as the lambdas find it when the solver calls
\* them: the loop is over, so it holds the last element of self.sectors.
LoopSector == sectors[Len(sectors)]

\* The index list read at call time instead of bound as a default argument: the
\* list of the sector the loop visited last.
ConstraintIdxLate(c) == sector_stocks_idx(LoopSector)

\* The index list a constraint function sums over when called.
ConstraintIdx(c) == c.idx

\* The sector whose bound a constraint function looks up when called: `sector`
\* is a free variable of the lambda, read at call time.
ConstraintSector(c) == LoopSector

\* np.sum(x[idx]) inside a sector constraint.
ConstraintSum(c, x) == np_sum(Take(x, ConstraintIdx(c)))

\* Whether calling the constraint function raises KeyError.
ConstraintRaises(c) ==
    /\ c.type = "ineq"
    /\ ConstraintSector(c) \notin DOMAIN sector_constraints[c.bound]

\* The residual the constraint function returns at x (weights in 1/Unit).
ConstraintFun(c, x) ==
    IF c.bound = "sum" THEN np_sum(x) - Unit
    ELSE IF c.bound = "min" THEN ConstraintSum(c, x) - sector_constraints.min[ConstraintSector(c)]
    ELSE sector_constraints.max[ConstraintSector(c)] - ConstraintSum(c, x)

\* Box bounds that let a weight leave [0, 1].
BoundsLoose(n_assets) == [i \in 1..n_assets |-> <<-1, Unit + 1>>]

\* bounds = tuple((0, 1) for _ in range(n_assets))
Bounds(n_assets) == [i \in 1..n_assets |-> <<0, Unit>>]

\* init_weights = [1/n_assets] * n_assets, in units of 1/n_assets.
InitWeights(n_assets) == [i \in 1..n_assets |-> 1]

\* The points the solver may stop at: the weight grid, one step beyond [0, 1]
\* on either side.
Candidates(n_assets) == [1..n_assets -> -1..(Unit + 1)]

\* Where SLSQP may report success: a point that meets the box bounds, has
\* residual 0 on every 'eq' constraint and residual >= 0 on every 'ineq' one.
Feasible(x, bounds, cons) ==
    /\ \A i \in DOMAIN x : bounds[i][1] <= x[i] /\ x[i] <= bounds[i][2]
    /\ \A k \in DOMAIN cons :
          IF cons[k].type = "eq" THEN ConstraintFun(cons[k], x) = 0
          ELSE ConstraintFun(cons[k], x) >= 0

SolverFailureMessages == {"Iteration limit reached", "Inequality constraints incompatible"}

\* scipy.optimize.minimize(..., method='SLSQP', bounds, constraints): every
\* OptimizeResult it may return once the callbacks have been evaluated at x0
\* without raising.
minimize(n_assets, bounds, cons) ==
    {[success |-> TRUE, message |-> "Optimization terminated successfully", x |-> x] :
        x \in {y \in Candidates(n_assets) : Feasible(y, bounds, cons)}}
    \cup {[success |-> FALSE, message |-> m, x |-> <<>>] : m \in SolverFailureMessages}

\* dict(zip(self.stocks, optimal_weights))
ZipWeights(x) ==
    [s \in {stocks[i] : i \in 1..Min(Len(stocks), Len(x))} |-> x[IndexOf(stocks, s)]]

\* The success branch: the statistics at result.x, then the returned dictionary.
OptimizeSuccess(res, obj0) ==
    LET stats == _get_portfolio_stats(res.x)
        sw    == _get_sector_weights(res.x)
    IN  IF sw.raised # "None"
        THEN [Raised("optimize_portfolio", sw.raised, sw.key, 1)
                 EXCEPT !.solver = res, !.objective_init = obj0]
        ELSE [op |-> "optimize_portfolio", argument |-> <<>>, raised |-> "None", message |-> "",
              solver_calls |-> 1, solver |-> res, objective_init |-> obj0,
              result |-> [weights |-> ZipWeights(res.x),
                          sector_weights |-> sw.value,
                          portfolio_return |-> stats.portfolio_return,
                          portfolio_volatility |-> stats.portfolio_vol,
                          sharpe_ratio |-> SharpeRatio(stats)]]

\* The else branch: raise Exception("Optimization failed to converge").
OptimizeFailure(res, obj0) ==
    [Raised("optimize_portfolio", "Exception", "Optimization failed to converge", 1)
        EXCEPT !.solver = res, !.objective_init = obj0]

\* optimize_portfolio().  minimize first calls every constraint function and
\* then the objective at init_weights; an exception in a callback leaves
\* minimize and optimize_portfolio.
optimize_portfolio ==
    LET n_assets == Len(stocks)
    IN  IF n_assets = 0
        THEN /\ constraints' = <<>>
             /\ outcome' = Raised("optimize_portfolio", "ZeroDivisionError", "division by zero", 0)
        ELSE /\ constraints' = BuildConstraints
             /\ IF \E k \in DOMAIN constraints' : ConstraintRaises(constraints'[k])
                THEN outcome' = Raised("optimize_portfolio", "KeyError", LoopSector, 1)
                ELSE LET stats0 == _get_portfolio_stats(InitWeights(n_assets))
                     IN  IF stats0.raised # "None"
                         THEN outcome' = Raised("optimize_portfolio", stats0.raised, "", 1)
                         ELSE \E res \in minimize(n_assets, Bounds(n_assets), constraints') :
                                 outcome' = IF res.success
                                            THEN OptimizeSuccess(res, _objective_function(InitWeights(n_assets)))
                                            ELSE OptimizeFailure(res, _objective_function(InitWeights(n_assets)))

OptimizePortfolio ==
    /\ optimize_portfolio
    /\ UNCHANGED <<stocks, sectors, stock_sectors, returns, cov_matrix, sector_constraints>>

\* A direct call of _get_sector_weights with any vector on the weight grid.
GetSectorWeights ==
    /\ \E w \in Candidates(Len(stocks)) :
          LET sw == _get_sector_weights(w)
          IN  outcome' =
                IF sw.raised # "None"
                THEN [Raised("_get_sector_weights", sw.raised, sw.key, 0) EXCEPT !.argument = w]
                ELSE [Returned("_get_sector_weights")
                         EXCEPT !.argument = w, !.result.sector_weights = sw.value]
    /\ UNCHANGED <<stocks, sectors, stock_sectors, returns, cov_matrix,
                   sector_constraints, constraints>>

-----------------------------------------------------------------------------
(* __init__ *)

Init ==
    /\ stocks \in {SubSeq(AssetNames, 1, n) : n \in 0..Len(AssetNames)}
    /\ stock_sectors \in {f \in [Range(stocks) -> SectorNames] :
                            stocks # <<>> => f[stocks[1]] = "Technology"}
    /\ sectors \in {q \in UNION {[1..k -> SectorNames] : k \in 0..Cardinality(SectorNames)} :
                      \A i, j \in DOMAIN q : q[i] = q[j] => i = j}
    /\ returns = NoneFrame
    /\ cov_matrix = NoneFrame
    /\ sector_constraints = NoneConstraints
    /\ constraints = <<>>
    /\ outcome = Returned("__init__")

Next ==
    \/ FetchData
    \/ SetSectorConstraints
    \/ OptimizePortfolio

\* The client's calls on one optimizer, in any order.
Spec == Init /\ [][Next]_vars

\* The result aggregation alone, applied to every vector of the grid.
SpecAggregate == Init /\ [][GetSectorWeights]_vars

-----------------------------------------------------------------------------
(* Vocabulary of the properties. *)

\* The latest call was optimize_portfolio and it returned a result dictionary.
ResultReturned == outcome.op = "optimize_portfolio" /\ outcome.raised = "None"

\* The sum of the entries of w at the positions of the assets mapped to sector s.
SectorTotal(w, s) ==
    np_sum([i \in 1..Len(w) |-> IF stock_sectors[stocks[i]] = s THEN w[i] ELSE 0])

\* The returned weight of the asset at position i.
ReturnedWeight(i) == outcome.result.weights[stocks[i]]

ReturnedVector == [i \in 1..Len(stocks) |-> ReturnedWeight(i)]

\* Both dictionaries have an entry for sector s.
HasBounds(s) ==
    /\ ~sector_constraints.isNone
    /\ s \in DOMAIN sector_constraints.min
    /\ s \in DOMAIN sector_constraints.max

\* The configured bounds are malformed or contradictory.
Malformed ==
    /\ ~sector_constraints.isNone
    /\ LET both == DOMAIN sector_constraints.min \cap DOMAIN sector_constraints.max
           mins == [k \in 1..Len(sectors) |->
                       IF sectors[k] \in DOMAIN sector_constraints.min
                       THEN sector_constraints.min[sectors[k]] ELSE 0]
       IN  \/ \E s \in both : sector_constraints.min[s] > sector_constraints.max[s]
           \/ \E s \in DOMAIN sector_constraints.min : sector_constraints.min[s] < 0
           \/ \E s \in DOMAIN sector_constraints.max : sector_constraints.max[s] > Unit
           \/ np_sum(mins) > Unit

NonFinite(f) == f.kind \in {"inf", "-inf", "nan"}

\* fetch_data has delivered at least 2 return rows for every asset, and there
\* is an asset.
DataReady ==
    /\ stocks # <<>>
    /\ returns.columns = stocks
    /\ cov_matrix.columns = stocks
    /\ Len(returns.rows) >= 2

\* The latest optimize_portfolio ran on such data and met no zero volatility,
\* neither at the start vector nor at the returned point.
RegularRun ==
    /\ DataReady
    /\ outcome.objective_init.kind = "finite"
    /\ outcome.result.sharpe_ratio.kind = "finite"

\* Every sector of self.sectors has at least one asset.
EverySectorPopulated ==
    \A s \in Range(sectors) : \E i \in DOMAIN stocks : stock_sectors[stocks[i]] = s

\* Every asset's sector is one of self.sectors.
SectorsCoverStocks == \A i \in DOMAIN stocks : stock_sectors[stocks[i]] \in Range(sectors)

-----------------------------------------------------------------------------
(* Properties. *)

\* C1: in every returned result, once (well-formed) bounds were supplied for
\* every sector, each sector's aggregate returned weight lies within that
\* sector's own [min, max], whatever the sector's position in self.sectors.
C1_SectorBoundsRespected ==
    (/\ ResultReturned
     /\ RegularRun
     /\ EverySectorPopulated
     /\ ~Malformed
     /\ \A s \in Range(sectors) : HasBounds(s)) =>
        \A s \in Range(sectors) :
            /\ sector_constraints.min[s] <= SectorTotal(ReturnedVector, s)
            /\ SectorTotal(ReturnedVector, s) <= sector_constraints.max[s]

\* C2: every returned 'weights' mapping has exactly one entry per asset of
\* self.stocks, every entry lies in [0, 1] and the entries sum to 1.
C2_WeightsFormSimplexPoint ==
    ResultReturned =>
        /\ DOMAIN outcome.result.weights = Range(stocks)
        /\ \A i \in DOMAIN stocks : 0 <= ReturnedWeight(i) /\ ReturnedWeight(i) <= Unit
        /\ np_sum(ReturnedVector) = Unit

\* C2 witness: a result over two assets, both with a positive weight, returned
\* while sector bounds were configured.
C2_Witness ==
    /\ ResultReturned
    /\ RegularRun
    /\ Len(stocks) = 2
    /\ ~sector_constraints.isNone
    /\ \A i \in DOMAIN stocks : ReturnedWeight(i) > 0

\* C3: with malformed or contradictory bounds configured the run fails
\* before the solver is invoked, so optimize_portfolio never gets as far as
\* the solver and never returns a result for them.
C3_MalformedBoundsFailFast ==
    (Malformed /\ DataReady /\ outcome.op = "optimize_portfolio") =>
        /\ outcome.raised # "None"
        /\ outcome.solver_calls = 0

\* C4: when the solver reports failure, optimize_portfolio raises
\* OptimizationFailedError carrying the solver's message, after exactly one
\* solver invocation and without a result.
C4_SolverFailureIsTyped ==
    (/\ outcome.op = "optimize_portfolio"
     /\ DataReady
     /\ outcome.solver.message \in SolverFailureMessages) =>
        /\ outcome.raised = "OptimizationFailedError"
        /\ outcome.message = outcome.solver.message
        /\ outcome.solver_calls = 1
        /\ outcome.result = NoResult

\* C5: a fetch_data that leaves fewer than 2 return rows fails (with
\* InsufficientDataError) and leaves no covariance matrix.
C5_TooFewRowsFail ==
    (outcome.op = "fetch_data" /\ stocks # <<>> /\ Len(returns.rows) < 2) =>
        /\ outcome.raised # "None"
        /\ cov_matrix.isNone

\* C6: a sector of self.sectors without an entry in the bounds dictionaries
\* gets no inequality constraint, and the run does not fail on the missing entry.
C6_UnboundedSectorUnconstrained ==
    (outcome.op = "optimize_portfolio" /\ DataReady /\ ~sector_constraints.isNone) =>
        /\ \A k \in DOMAIN constraints :
              constraints[k].type = "ineq" => HasBounds(constraints[k].made_for)
        /\ ~(outcome.raised = "KeyError" /\ ~outcome.solver.success)

\* C7: after every fetch_data that returned, the return series and the
\* covariance matrix have one column per asset of self.stocks, in that order.
C7_ColumnsAreStocks ==
    (outcome.op = "fetch_data" /\ outcome.raised = "None") =>
        /\ returns.columns = stocks
        /\ cov_matrix.columns = stocks
        /\ Len(cov_matrix.rows) = Len(stocks)

\* C8 as stated: for every weight vector, _get_sector_weights returns one
\* entry per sector of self.sectors, each the sum of the weights of the assets
\* mapped to it, and the entries sum to the vector's sum.
C8_SectorWeightsAlwaysReturned ==
    outcome.op = "_get_sector_weights" =>
        /\ outcome.raised = "None"
        /\ DOMAIN outcome.result.sector_weights = Range(sectors)
        /\ \A s \in Range(sectors) :
              outcome.result.sector_weights[s] = SectorTotal(outcome.argument, s)
        /\ np_sum([k \in 1..Len(sectors) |-> outcome.result.sector_weights[sectors[k]]])
              = np_sum(outcome.argument)

\* C8 amended: when every asset's sector is in self.sectors the call returns
\* one entry per sector, each the sum of the weights of the assets mapped to
\* it, summing to the vector's sum; otherwise it raises KeyError.
C8_SectorWeightsWhenCovered ==
    outcome.op = "_get_sector_weights" =>
        IF SectorsCoverStocks
        THEN /\ outcome.raised = "None"
             /\ DOMAIN outcome.result.sector_weights = Range(sectors)
             /\ \A s \in Range(sectors) :
                   outcome.result.sector_weights[s] = SectorTotal(outcome.argument, s)
             /\ np_sum([k \in 1..Len(sectors) |-> outcome.result.sector_weights[sectors[k]]])
                   = np_sum(outcome.argument)
        ELSE /\ outcome.raised = "KeyError"
             /\ outcome.result = NoResult

\* C8 witness: a returned aggregation over two sectors, both with a non-zero
\* total, from two different asset weights.
C8_Witness ==
    /\ outcome.op = "_get_sector_weights"
    /\ outcome.raised = "None"
    /\ Len(sectors) = 2
    /\ Len(outcome.argument) = 2
    /\ outcome.argument[1] # outcome.argument[2]
    /\ \A s \in Range(sectors) : outcome.result.sector_weights[s] > 0

\* C9: the objective is guarded against zero volatility: neither the value the
\* solver gets at the start vector nor a returned sharpe_ratio is the outcome
\* of a division by zero.
C9_ZeroVolatilityGuarded ==
    (outcome.op = "optimize_portfolio" /\ returns.columns = stocks) =>
        /\ ~NonFinite(outcome.objective_init)
        /\ ~NonFinite(outcome.result.sharpe_ratio)

\* C10: every sector constraint function, called after the loop, sums the
\* weights of exactly the assets mapped to the sector it was created for; the
\* index lists of different sectors are disjoint and together cover every
\* asset whose sector is in self.sectors.
C10_ConstraintSumsOwnSector ==
    LET ineq == {k \in DOMAIN constraints : constraints[k].type = "ineq"}
    IN  /\ \A k \in ineq : \A x \in Candidates(Len(stocks)) :
              ConstraintSum(constraints[k], x) = SectorTotal(x, constraints[k].made_for)
        /\ \A k, m \in ineq :
              constraints[k].made_for # constraints[m].made_for =>
                  Range(ConstraintIdx(constraints[k])) \cap Range(ConstraintIdx(constraints[m])) = {}
        /\ ineq # {} =>
              UNION {Range(ConstraintIdx(constraints[k])) : k \in ineq}
                  = {i \in DOMAIN stocks : stock_sectors[stocks[i]] \in Range(sectors)}

\* C10 witness: the solver returned a point after evaluating the constraints
\* of two sectors that hold one asset each.
C10_Witness ==
    /\ ResultReturned
    /\ RegularRun
    /\ Len(constraints) = 5
    /\ Len(stocks) = 2
    /\ stock_sectors[stocks[1]] # stock_sectors[stocks[2]]
    /\ constraints[2].idx # constraints[4].idx
====
